---- MODULE Spec2Model ----
(***************************************************************************)
(* Direct-messaging subsystem of tb-backend: MessagesService (conversation *)
(* and message persistence, unread counters), MessagesController           *)
(* (startConversation) and MessagesGateway (connection registry, rooms,    *)
(* pushes).  Prisma calls are modelled as pure operators over a database   *)
(* record d; every handler is modelled twice from the same operators: as   *)
(* one atomic action (requests served one at a time) and as one action per *)
(* await point (requests served concurrently).                             *)
(***************************************************************************)
EXTENDS Integers, Sequences, FiniteSets, TLC

(* ------------------------------ bounds -------------------------------- *)
\* sequential specification: number of message rows ever created
MaxMessages == 2
\* sequential specification: number of conversation rows ever created
MaxConversations == 1
\* concurrent specifications: number of requests (each runs once)
MaxTasks == 3
\* gateway specification: number of socket connections (each connects once)
MaxSockets == 2

(* --------------------------- identifiers ------------------------------ *)
\* User ids are strings; a string is modelled as the sequence of its code
\* units, so that Array.prototype.sort's ordering is the real one
\* ("1" < "10" < "2").
U1 == <<1>>
U10 == <<1, 0>>
U2 == <<2>>
\* an id that is no row of the User table
UGhost == <<3>>
UserIds == {U1, U10, U2, UGhost}

\* NULL of a nullable column / an absent row
NoId == 0
NoTime == 0
NoText == <<>>
NoUser == <<>>
NoRow == [id |-> NoId]

\* message bodies accepted by CreateMessageDto (1..5000 characters); Long is
\* longer than the preview kept in Conversation.lastMessageText
SnippetLen == 100
Short == <<7>>
Long == [i \in 1..(SnippetLen + 1) |-> 8]
Contents == {Short, Long}

Scopes == {"sender", "receiver", "both"}

(* ----------------------------- strings -------------------------------- *)
\* a < b in the order of String comparison (code unit by code unit, a proper
\* prefix first)
RECURSIVE StrLess(_, _)
StrLess(a, b) ==
    IF b = <<>> THEN FALSE
    ELSE IF a = <<>> THEN TRUE
    ELSE IF Head(a) # Head(b) THEN Head(a) < Head(b)
    ELSE StrLess(Tail(a), Tail(b))

\* [user1Id, user2Id].sort()
SortPairUnsorted(a, b) == <<a, b>>
SortPair(a, b) == IF StrLess(b, a) THEN <<b, a>> ELSE <<a, b>>

\* content.substring(0, 100)
SubstringWhole(s, n) == s
Substring(s, n) == IF Len(s) <= n THEN s ELSE SubSeq(s, 1, n)

(* ------------------------------ state --------------------------------- *)
VARIABLES
    users,          \* User table: id -> [allowMessages]
    conversations,  \* Conversation table: set of rows
    messages,       \* Message table: set of rows
    notifications,  \* Notification table: set of rows
    now,            \* the clock: it advances with every message created, so
                    \* that createdAt orders the messages as they were created
    nextConvId,     \* fresh conversation ids
    nextMsgId,      \* fresh message ids
    task,           \* concurrent requests: per request its position and locals
    userSockets,    \* MessagesGateway.userSockets: userId -> socketId
    socketUsers,    \* MessagesGateway.socketUsers: socketId -> userId
    socket,         \* per connection: handshake token, handler position, transport state
    rooms,          \* socket.io adapter: socketId -> set of rooms joined
    inbox           \* per connection: events the client has received

dbVars == <<users, conversations, messages, notifications, now, nextConvId, nextMsgId>>
gwVars == <<userSockets, socketUsers, socket, rooms>>
vars == <<dbVars, task, gwVars, inbox>>

\* the database as one value
DB == [users |-> users, conversations |-> conversations, messages |-> messages,
       notifications |-> notifications, now |-> now,
       nextConvId |-> nextConvId, nextMsgId |-> nextMsgId]

SetDB(d) ==
    /\ users' = d.users
    /\ conversations' = d.conversations
    /\ messages' = d.messages
    /\ notifications' = d.notifications
    /\ now' = d.now
    /\ nextConvId' = d.nextConvId
    /\ nextMsgId' = d.nextMsgId

ExistingUsers == {U1, U10, U2}

(* ---------------------------- persistence ----------------------------- *)
\* prisma.user.findUnique({ where: { id } })
UserFindUnique(d, id) ==
    IF id \in DOMAIN d.users THEN [id |-> id, allowMessages |-> d.users[id].allowMessages]
    ELSE [id |-> NoUser, allowMessages |-> FALSE]

\* prisma.conversation.findUnique({ where: { participant1Id_participant2Id } })
ConversationFindPair(d, p1, p2) ==
    LET hit == {c \in d.conversations : c.participant1Id = p1 /\ c.participant2Id = p2}
    IN  IF hit = {} THEN NoRow ELSE CHOOSE c \in hit : TRUE

\* the unique index Conversation_participant1Id_participant2Id_key
PairTakenNever(d, p1, p2) == FALSE
PairTaken(d, p1, p2) ==
    \E c \in d.conversations : c.participant1Id = p1 /\ c.participant2Id = p2

NewConversation(d, p1, p2) ==
    [id |-> d.nextConvId, participant1Id |-> p1, participant2Id |-> p2,
     lastMessageAt |-> d.now, lastMessageText |-> NoText,
     unreadCount1 |-> 0, unreadCount2 |-> 0]

\* prisma.conversation.create({ data: { participant1Id, participant2Id } });
\* the caller has checked ~PairTaken (otherwise the insert throws)
ConversationCreate(d, p1, p2) ==
    [d EXCEPT !.conversations = @ \cup {NewConversation(d, p1, p2)},
              !.nextConvId = @ + 1]

\* prisma.conversation.findUnique({ where: { id } })
ConversationFindUnique(d, cid) ==
    LET hit == {c \in d.conversations : c.id = cid}
    IN  IF hit = {} THEN NoRow ELSE CHOOSE c \in hit : TRUE

ReplaceRow(rows, old, new) == (rows \ {old}) \cup {new}

NewMessage(d, cid, senderId, content) ==
    [id |-> d.nextMsgId, conversationId |-> cid, senderId |-> senderId,
     content |-> content, read |-> FALSE, readAt |-> NoTime,
     deletedAt |-> NoTime, deletedBySender |-> FALSE, deletedByReceiver |-> FALSE,
     createdAt |-> d.now]

\* prisma.message.create({ data: { conversationId, senderId, content } });
\* the caller has checked the foreign key Message_conversationId_fkey
MessageCreate(d, cid, senderId, content) ==
    [d EXCEPT !.messages = @ \cup {NewMessage(d, cid, senderId, content)},
              !.nextMsgId = @ + 1,
              !.now = @ + 1]

\* prisma.conversation.update: lastMessageAt, lastMessageText and
\* { increment: 1 } on the receiver's counter, applied to the row as it is
\* in the database now (snapshot is the row sendMessage read at its start)
TouchOnSendStale(row, snapshot, isParticipant1, content, at) ==
    [row EXCEPT !.lastMessageAt = at,
                !.lastMessageText = Substring(content, SnippetLen),
                !.unreadCount2 = IF isParticipant1 THEN snapshot.unreadCount2 + 1 ELSE @,
                !.unreadCount1 = IF isParticipant1 THEN @ ELSE snapshot.unreadCount1 + 1]
TouchOnSendWrongSide(row, snapshot, isParticipant1, content, at) ==
    [row EXCEPT !.lastMessageAt = at,
                !.lastMessageText = Substring(content, SnippetLen),
                !.unreadCount1 = IF isParticipant1 THEN @ + 1 ELSE @,
                !.unreadCount2 = IF isParticipant1 THEN @ ELSE @ + 1]
TouchOnSend(row, snapshot, isParticipant1, content, at) ==
    [row EXCEPT !.lastMessageAt = at,
                !.lastMessageText = Substring(content, SnippetLen),
                !.unreadCount2 = IF isParticipant1 THEN @ + 1 ELSE @,
                !.unreadCount1 = IF isParticipant1 THEN @ ELSE @ + 1]

ConversationUpdateOnSend(d, snapshot, isParticipant1, content) ==
    LET row == ConversationFindUnique(d, snapshot.id)
    IN  [d EXCEPT !.conversations =
                      ReplaceRow(@, row, TouchOnSend(row, snapshot, isParticipant1, content, d.now))]

\* prisma.notification.create({ data: { userId, type: 'MESSAGE', fromUserId, actionUrl } })
NotificationCreate(d, receiverId, senderId, cid) ==
    [d EXCEPT !.notifications =
                  @ \cup {[userId |-> receiverId, type |-> "MESSAGE",
                           fromUserId |-> senderId, conversationId |-> cid]}]

\* prisma.conversation.update({ data: isParticipant1 ? { unreadCount1: 0 } : { unreadCount2: 0 } })
ResetUnreadBoth(row, isParticipant1) ==
    [row EXCEPT !.unreadCount1 = 0, !.unreadCount2 = 0]
ResetUnread(row, isParticipant1) ==
    IF isParticipant1 THEN [row EXCEPT !.unreadCount1 = 0]
    ELSE [row EXCEPT !.unreadCount2 = 0]

ConversationResetUnread(d, cid, isParticipant1) ==
    LET row == ConversationFindUnique(d, cid)
    IN  [d EXCEPT !.conversations = ReplaceRow(@, row, ResetUnread(row, isParticipant1))]

\* prisma.message.updateMany({ where: { conversationId, senderId: otherUserId,
\* read: false }, data: { read: true, readAt: new Date() } })
ReadMatchesAll(m, cid, otherUserId) == m.conversationId = cid /\ m.senderId = otherUserId
ReadMatches(m, cid, otherUserId) ==
    m.conversationId = cid /\ m.senderId = otherUserId /\ m.read = FALSE

MessageUpdateManyRead(d, cid, otherUserId) ==
    [d EXCEPT !.messages =
                  {IF ReadMatches(m, cid, otherUserId)
                   THEN [m EXCEPT !.read = TRUE, !.readAt = d.now] ELSE m : m \in @}]

\* prisma.message.findUnique({ where: { id }, include: { conversation: true } })
MessageFindUnique(d, mid) ==
    LET hit == {m \in d.messages : m.id = mid}
    IN  IF hit = {} THEN NoRow ELSE CHOOSE m \in hit : TRUE

\* the three prisma.message.update calls of deleteMessage
MessageUpdateDelete(d, m, deleteFor) ==
    LET new == CASE deleteFor = "both" ->
                      [m EXCEPT !.deletedAt = d.now, !.deletedBySender = TRUE,
                                !.deletedByReceiver = TRUE]
                 [] deleteFor = "sender" -> [m EXCEPT !.deletedBySender = TRUE]
                 [] OTHER -> [m EXCEPT !.deletedByReceiver = TRUE]
    IN  [d EXCEPT !.messages = ReplaceRow(@, m, new)]

\* prisma.message.deleteMany({ where: { conversationId } })
MessageDeleteMany(d, cid) ==
    [d EXCEPT !.messages = {m \in @ : m.conversationId # cid}]

ConversationDeleteNoCascade(d, cid) ==
    [d EXCEPT !.conversations = {c \in @ : c.id # cid}]
\* prisma.conversation.delete({ where: { id } }); Message_conversationId_fkey
\* is ON DELETE CASCADE
ConversationDelete(d, cid) ==
    [d EXCEPT !.conversations = {c \in @ : c.id # cid},
              !.messages = {m \in @ : m.conversationId # cid}]

(* ------------------------------ results ------------------------------- *)
\* What a handler hands back: the HTTP outcome and the body.  status is "ok",
\* "bad_request" (BadRequestException), "not_found" (NotFoundException),
\* "forbidden" (ForbiddenException) or "error" (a rejected Prisma call that
\* nothing catches).
Response(status, conversation, message, data, count) ==
    [status |-> status, conversation |-> conversation, message |-> message,
     data |-> data, count |-> count]
Failure(status) == Response(status, NoRow, NoRow, <<>>, 0)

\* socket.io rooms: `user:${userId}` and `conversation:${conversationId}`
UserRoom(uid) == [user |-> uid, conv |-> NoId]
ConversationRoom(cid) == [user |-> NoUser, conv |-> cid]
\* server.emit: every socket of the namespace
Everyone == [user |-> NoUser, conv |-> NoId]

Event(name, cid, message, uid, isTyping) ==
    [event |-> name, conversationId |-> cid, message |-> message, userId |-> uid,
     isTyping |-> isTyping]
Emit(room, ev) == [room |-> room, ev |-> ev]

\* MessagesGateway.emitNewMessage / emitMessageRead / emitTyping
EmitNewMessage(receiverId, message) ==
    Emit(UserRoom(receiverId), Event("new-message", message.conversationId, message, NoUser, FALSE))
EmitMessageRead(senderId, cid) ==
    Emit(UserRoom(senderId), Event("message-read", cid, NoRow, NoUser, FALSE))
EmitTyping(receiverId, cid, uid, isTyping) ==
    Emit(UserRoom(receiverId), Event("user-typing", cid, NoRow, uid, isTyping))

\* the outcome of a handler: the database it leaves, its response, its pushes
Outcome(d, res, emits) == [d |-> d, res |-> res, emits |-> emits]

\* the Prisma call of sendMessage that rejects, if any: conversation.update or
\* notification.create
Faults == {"none", "update", "notification"}

(* --------------------------- MessagesService -------------------------- *)
IsParticipantAlways(c, uid) == TRUE
IsParticipant(c, uid) == c.participant1Id = uid \/ c.participant2Id = uid

OtherParticipant(c, uid) ==
    IF c.participant1Id = uid THEN c.participant2Id ELSE c.participant1Id

\* MessagesService.getConversation
GetConversation(d, cid, uid) ==
    LET c == ConversationFindUnique(d, cid)
    IN  IF c = NoRow THEN Failure("not_found")
        ELSE IF ~IsParticipant(c, uid) THEN Failure("forbidden")
        ELSE Response("ok", c, NoRow, <<>>, 0)

GetOrCreateConversationUnguarded(d, user1Id, user2Id) ==
    LET pair == SortPair(user1Id, user2Id)
        found == ConversationFindPair(d, pair[1], pair[2])
        d2 == ConversationCreate(d, pair[1], pair[2])
    IN  IF user1Id = user2Id THEN Outcome(d, Failure("bad_request"), <<>>)
        ELSE IF UserFindUnique(d, user2Id).id = NoUser
        THEN Outcome(d, Failure("not_found"), <<>>)
        ELSE IF found # NoRow THEN Outcome(d, Response("ok", found, NoRow, <<>>, 0), <<>>)
        ELSE Outcome(d2, Response("ok", ConversationFindPair(d2, pair[1], pair[2]),
                                  NoRow, <<>>, 0), <<>>)
\* MessagesService.getOrCreateConversation, with no other request in between
GetOrCreateConversation(d, user1Id, user2Id) ==
    LET targetUser == UserFindUnique(d, user2Id)
        pair == SortPair(user1Id, user2Id)
        found == ConversationFindPair(d, pair[1], pair[2])
        d2 == ConversationCreate(d, pair[1], pair[2])
    IN  IF user1Id = user2Id THEN Outcome(d, Failure("bad_request"), <<>>)
        ELSE IF targetUser.id = NoUser THEN Outcome(d, Failure("not_found"), <<>>)
        ELSE IF ~targetUser.allowMessages THEN Outcome(d, Failure("forbidden"), <<>>)
        ELSE IF found # NoRow THEN Outcome(d, Response("ok", found, NoRow, <<>>, 0), <<>>)
        ELSE Outcome(d2, Response("ok", ConversationFindPair(d2, pair[1], pair[2]),
                                  NoRow, <<>>, 0), <<>>)

\* MessagesService.sendMessage, with no other request in between and no
\* Prisma call rejecting
SendMessage(d, cid, senderId, content) ==
    LET got == GetConversation(d, cid, senderId)
        conversation == got.conversation
        receiverId == OtherParticipant(conversation, senderId)
        message == NewMessage(d, cid, senderId, content)
        d2 == MessageCreate(d, cid, senderId, content)
        isParticipant1 == senderId = conversation.participant1Id
        d3 == ConversationUpdateOnSend(d2, conversation, isParticipant1, content)
        d4 == NotificationCreate(d3, receiverId, senderId, cid)
    IN  IF got.status # "ok" THEN Outcome(d, got, <<>>)
        ELSE Outcome(d4, Response("ok", NoRow, message, <<>>, 0),
                     <<EmitNewMessage(receiverId, message)>>)

\* MessagesController.startConversation
StartConversation(d, uid, receiverId, content) ==
    LET made == GetOrCreateConversation(d, uid, receiverId)
        sent == SendMessage(made.d, made.res.conversation.id, uid, content)
    IN  IF made.res.status # "ok" THEN made
        ELSE IF sent.res.status # "ok" THEN sent
        ELSE Outcome(sent.d, Response("ok", made.res.conversation, sent.res.message, <<>>, 0),
                     sent.emits)

\* orderBy: { createdAt: 'desc' }
RECURSIVE NewestFirst(_)
NewestFirst(rows) ==
    IF rows = {} THEN <<>>
    ELSE LET top == CHOOSE m \in rows : \A o \in rows : o.createdAt <= m.createdAt
         IN  <<top>> \o NewestFirst(rows \ {top})

PageNoSkip(seq, skip, take) == SubSeq(seq, 1, IF take > Len(seq) THEN Len(seq) ELSE take)
\* skip / take
Page(seq, skip, take) ==
    IF skip >= Len(seq) THEN <<>>
    ELSE SubSeq(seq, skip + 1, IF skip + take > Len(seq) THEN Len(seq) ELSE skip + take)

ReverseSkipped(seq) == seq
\* Array.prototype.reverse
Reverse(seq) == [i \in 1..Len(seq) |-> seq[Len(seq) + 1 - i]]

VisibleToAnySide(m, cid, uid) == m.conversationId = cid /\ m.deletedAt = NoTime
\* the where clause of getMessages' findMany
VisibleTo(m, cid, uid) ==
    /\ m.conversationId = cid
    /\ m.deletedAt = NoTime
    /\ \/ m.senderId = uid /\ ~m.deletedBySender
       \/ m.senderId # uid /\ ~m.deletedByReceiver

\* MessagesService.getMessages
GetMessages(d, cid, uid, page, limit) ==
    LET got == GetConversation(d, cid, uid)
        skip == (page - 1) * limit
        found == Page(NewestFirst({m \in d.messages : VisibleTo(m, cid, uid)}), skip, limit)
        total == Cardinality({m \in d.messages :
                                 m.conversationId = cid /\ m.deletedAt = NoTime})
    IN  IF got.status # "ok" THEN Outcome(d, got, <<>>)
        ELSE Outcome(d, Response("ok", NoRow, NoRow, Reverse(found), total), <<>>)

\* MessagesService.markMessagesAsRead, with no other request in between
MarkMessagesAsRead(d, cid, uid) ==
    LET got == GetConversation(d, cid, uid)
        conversation == got.conversation
        isParticipant1 == uid = conversation.participant1Id
        otherUserId == IF isParticipant1 THEN conversation.participant2Id
                       ELSE conversation.participant1Id
        d2 == ConversationResetUnread(d, cid, isParticipant1)
        d3 == MessageUpdateManyRead(d2, cid, otherUserId)
    IN  IF got.status # "ok" THEN Outcome(d, got, <<>>)
        ELSE Outcome(d3, Response("ok", NoRow, NoRow, <<>>, 0),
                     <<EmitMessageRead(otherUserId, cid)>>)

DeleteBranchUnchecked(isSender, deleteFor) == deleteFor
\* the branch deleteMessage takes: "both", "sender", "receiver" or "invalid"
DeleteBranch(isSender, deleteFor) ==
    IF deleteFor = "both" THEN "both"
    ELSE IF deleteFor = "sender" /\ isSender THEN "sender"
    ELSE IF deleteFor = "receiver" /\ ~isSender THEN "receiver"
    ELSE "invalid"

\* MessagesService.deleteMessage
DeleteMessage(d, mid, uid, deleteFor) ==
    LET message == MessageFindUnique(d, mid)
        conversation == ConversationFindUnique(d, message.conversationId)
        branch == DeleteBranch(message.senderId = uid, deleteFor)
    IN  IF message = NoRow THEN Outcome(d, Failure("not_found"), <<>>)
        ELSE IF ~IsParticipant(conversation, uid) THEN Outcome(d, Failure("forbidden"), <<>>)
        ELSE IF branch = "invalid" THEN Outcome(d, Failure("forbidden"), <<>>)
        ELSE Outcome(MessageUpdateDelete(d, message, branch),
                     Response("ok", NoRow, NoRow, <<>>, 0), <<>>)

\* MessagesService.deleteConversation, with no other request in between
DeleteConversation(d, cid, uid) ==
    LET got == GetConversation(d, cid, uid)
    IN  IF got.status # "ok" THEN Outcome(d, got, <<>>)
        ELSE Outcome(ConversationDelete(MessageDeleteMany(d, cid), cid),
                     Response("ok", NoRow, NoRow, <<>>, 0), <<>>)

\* MessagesService.getConversationUnreadCount
GetConversationUnreadCount(d, cid, uid) ==
    LET got == GetConversation(d, cid, uid)
        conversation == got.conversation
        isParticipant1 == uid = conversation.participant1Id
    IN  IF got.status # "ok" THEN Outcome(d, got, <<>>)
        ELSE Outcome(d, Response("ok", NoRow, NoRow, <<>>,
                                 IF isParticipant1 THEN conversation.unreadCount1
                                 ELSE conversation.unreadCount2), <<>>)

(* --------------------------- initial state ---------------------------- *)
Tasks == 1..MaxTasks
Sockets == 1..MaxSockets

\* a request slot that has not been used
IdleTask ==
    [op |-> "none", pc |-> "idle", userId |-> NoUser, targetId |-> NoUser,
     cid |-> NoId, content |-> NoText, fault |-> "none",
     made |-> NoRow, conversation |-> NoRow, message |-> NoRow,
     res |-> Failure("pending")]

\* new Map(); Map.prototype.set and Map.prototype.delete
EmptyMap == [k \in {} |-> NoId]
MapSet(map, k, v) == [x \in DOMAIN map \cup {k} |-> IF x = k THEN v ELSE map[x]]
MapDelete(map, k) == [x \in DOMAIN map \ {k} |-> map[x]]

\* the handshake credential: absent, a token jwtService.verifyAsync resolves
\* with payload.sub, or one it rejects
\* a connection that has not been opened
NoToken == [kind |-> "none", sub |-> NoUser]
\* reply: the last event the connection sent and what its handler returned to
\* it ("none": nothing, "error": { error: 'Unauthorized' }, "success")
NoReply == [event |-> "none", conversationId |-> NoId, ack |-> "none"]
NewSocket == [token |-> NoToken, pc |-> "new", connected |-> FALSE, reply |-> NoReply]

\* The database right after the migration with three registered users (U2
\* has switched incoming messages off), an empty gateway, no request served.
Init ==
    /\ users = [u \in ExistingUsers |-> [allowMessages |-> (u # U2)]]
    /\ conversations = {}
    /\ messages = {}
    /\ notifications = {}
    /\ now = 1
    /\ nextConvId = 1
    /\ nextMsgId = 1
    /\ task = [t \in Tasks |-> IdleTask]
    /\ userSockets = EmptyMap
    /\ socketUsers = EmptyMap
    /\ socket = [s \in Sockets |-> NewSocket]
    /\ rooms = [s \in Sockets |-> {}]
    /\ inbox = [s \in Sockets |-> {}]

(* ------------------------------ delivery ------------------------------ *)
\* server.to(room).emit / server.emit: the adapter sends to the connected
\* sockets of the room
Receives(s, room) == socket[s].connected /\ (room = Everyone \/ room \in rooms[s])

Range(seq) == {seq[i] : i \in 1..Len(seq)}

Deliver(emits) ==
    inbox' = [s \in Sockets |->
                 inbox[s] \cup {e.ev : e \in {x \in Range(emits) : Receives(s, x.room)}}]

(* --------------- requests served one at a time (REST) ----------------- *)
\* ids a client may name: those of the rows there are, and one that is none
ConvIdsNamed == {c.id : c \in conversations} \cup {nextConvId}
MsgIdsNamed == {m.id : m \in messages} \cup {nextMsgId}

DefaultLimit == 50
MaxPage == 2
Pages == 1..MaxPage
Limits == {1, DefaultLimit}

\* a request served from start to end: its writes and its pushes
Served(out) ==
    /\ SetDB(out.d)
    /\ Deliver(out.emits)
    /\ UNCHANGED <<task, gwVars>>

\* POST /messages/conversations
CallStartConversation(uid, receiverId, content) ==
    /\ nextMsgId <= MaxMessages
    /\ nextConvId <= MaxConversations
    /\ Served(StartConversation(DB, uid, receiverId, content))

\* GET /messages/conversations/:id
CallGetConversation(cid, uid) ==
    Served(Outcome(DB, GetConversation(DB, cid, uid), <<>>))

\* DELETE /messages/conversations/:id
CallDeleteConversation(cid, uid) ==
    Served(DeleteConversation(DB, cid, uid))

\* GET /messages/conversations/:id/messages
CallGetMessages(cid, uid, page, limit) ==
    Served(GetMessages(DB, cid, uid, page, limit))

\* POST /messages/conversations/:id/messages
CallSendMessage(cid, uid, content) ==
    /\ nextMsgId <= MaxMessages
    /\ Served(SendMessage(DB, cid, uid, content))

\* PATCH /messages/conversations/:id/read
CallMarkAsRead(cid, uid) ==
    /\ Served(MarkMessagesAsRead(DB, cid, uid))

\* DELETE /messages/:id
CallDeleteMessage(mid, uid, deleteFor) ==
    /\ Served(DeleteMessage(DB, mid, uid, deleteFor))

\* GET /messages/conversations/:id/unread-count
CallGetConversationUnreadCount(cid, uid) ==
    Served(GetConversationUnreadCount(DB, cid, uid))

\* the requests of the clients, served one at a time
Next ==
    \/ \E uid \in ExistingUsers, receiverId \in UserIds, content \in Contents :
          CallStartConversation(uid, receiverId, content)
    \/ \E cid \in ConvIdsNamed, uid \in ExistingUsers : CallGetConversation(cid, uid)
    \/ \E cid \in ConvIdsNamed, uid \in ExistingUsers : CallDeleteConversation(cid, uid)
    \/ \E cid \in ConvIdsNamed, uid \in ExistingUsers, page \in Pages, limit \in Limits :
          CallGetMessages(cid, uid, page, limit)
    \/ \E cid \in ConvIdsNamed, uid \in ExistingUsers, content \in Contents :
          CallSendMessage(cid, uid, content)
    \/ \E cid \in ConvIdsNamed, uid \in ExistingUsers : CallMarkAsRead(cid, uid)
    \/ \E mid \in MsgIdsNamed, uid \in ExistingUsers, deleteFor \in Scopes :
          CallDeleteMessage(mid, uid, deleteFor)
    \/ \E cid \in ConvIdsNamed, uid \in ExistingUsers : CallGetConversationUnreadCount(cid, uid)

Spec == Init /\ [][Next]_vars

(* ------------------- requests served concurrently -------------------- *)
\* A request is a task: it runs from one await to the next in one step.  pc
\* names the Prisma call the task is waiting for; the locals are those of the
\* handler (conversation, message) and of the controller (made).  Each task
\* slot serves one request; slots are taken in order.
Idle(t) == task[t].pc = "idle"
CanBegin(t) == Idle(t) /\ \A o \in Tasks : o < t => ~Idle(o)

Goto(t, pc) == task' = [task EXCEPT ![t].pc = pc]
\* the handler returns or throws: its frame is gone, the request, the message
\* it created and the response are what is left of it
Done(t, res) ==
    task' = [task EXCEPT ![t] = [IdleTask EXCEPT !.op = task[t].op, !.userId = task[t].userId,
                                                 !.targetId = task[t].targetId,
                                                 !.cid = task[t].cid, !.fault = task[t].fault,
                                                 !.message = task[t].message,
                                                 !.pc = "done", !.res = res]]

\* getOrCreateConversation up to its first await; op is
\* "getOrCreateConversation" or "startConversation" (the controller, which
\* goes on to sendMessage)
BeginGetOrCreateConversation(t, op, user1Id, user2Id, content, fault) ==
    /\ CanBegin(t)
    /\ task' = [task EXCEPT ![t] =
                   [IdleTask EXCEPT !.op = op, !.userId = user1Id, !.targetId = user2Id,
                                    !.content = content, !.fault = fault,
                                    !.pc = IF user1Id = user2Id THEN "done" ELSE "goc_user",
                                    !.res = IF user1Id = user2Id THEN Failure("bad_request")
                                            ELSE Failure("pending")]]
    /\ UNCHANGED <<dbVars, gwVars, inbox>>

\* await prisma.user.findUnique, then the two checks on targetUser
GocUser(t) ==
    /\ task[t].pc = "goc_user"
    /\ LET targetUser == UserFindUnique(DB, task[t].targetId)
       IN  IF targetUser.id = NoUser THEN Done(t, Failure("not_found"))
           ELSE IF ~targetUser.allowMessages THEN Done(t, Failure("forbidden"))
           ELSE Goto(t, "goc_find")
    /\ UNCHANGED <<dbVars, gwVars, inbox>>

\* getOrCreateConversation returns row: the service call is over; the
\* controller's startConversation goes on with sendMessage(conversation.id, ...)
GocReturn(t, row) ==
    IF task[t].op = "startConversation"
    THEN task' = [task EXCEPT ![t].made = row, ![t].cid = row.id, ![t].pc = "send_get"]
    ELSE Done(t, Response("ok", row, NoRow, <<>>, 0))

\* await prisma.conversation.findUnique on the sorted pair
GocFind(t) ==
    /\ task[t].pc = "goc_find"
    /\ LET pair == SortPair(task[t].userId, task[t].targetId)
           found == ConversationFindPair(DB, pair[1], pair[2])
       IN  IF found # NoRow THEN GocReturn(t, found) ELSE Goto(t, "goc_create")
    /\ UNCHANGED <<dbVars, gwVars, inbox>>

\* await prisma.conversation.create: the unique index rejects a second row
\* for the pair, and nothing catches that
GocCreate(t) ==
    /\ task[t].pc = "goc_create"
    /\ LET pair == SortPair(task[t].userId, task[t].targetId)
       IN  IF PairTaken(DB, pair[1], pair[2])
           THEN Done(t, Failure("error")) /\ UNCHANGED dbVars
           ELSE /\ SetDB(ConversationCreate(DB, pair[1], pair[2]))
                /\ GocReturn(t, NewConversation(DB, pair[1], pair[2]))
    /\ UNCHANGED <<gwVars, inbox>>

\* sendMessage up to its first await
BeginSendMessage(t, cid, senderId, content, fault) ==
    /\ CanBegin(t)
    /\ task' = [task EXCEPT ![t] =
                   [IdleTask EXCEPT !.op = "sendMessage", !.userId = senderId, !.cid = cid,
                                    !.content = content, !.fault = fault, !.pc = "send_get"]]
    /\ UNCHANGED <<dbVars, gwVars, inbox>>

\* await this.getConversation(conversationId, senderId)
SendGet(t) ==
    /\ task[t].pc = "send_get"
    /\ LET got == GetConversation(DB, task[t].cid, task[t].userId)
       IN  IF got.status # "ok" THEN Done(t, got)
           ELSE task' = [task EXCEPT ![t].conversation = got.conversation,
                                     ![t].pc = "send_create"]
    /\ UNCHANGED <<dbVars, gwVars, inbox>>

SendCreateTouchFirst(t) ==
    /\ task[t].pc = "send_create"
    /\ IF ConversationFindUnique(DB, task[t].cid) = NoRow
       THEN Done(t, Failure("error")) /\ UNCHANGED dbVars
       ELSE /\ SetDB(ConversationUpdateOnSend(
                         DB, task[t].conversation,
                         task[t].userId = task[t].conversation.participant1Id,
                         task[t].content))
            /\ Goto(t, "send_update")
    /\ UNCHANGED <<gwVars, inbox>>
SendCreateAndEmit(t) ==
    /\ task[t].pc = "send_create"
    /\ IF ConversationFindUnique(DB, task[t].cid) = NoRow
       THEN Done(t, Failure("error")) /\ UNCHANGED <<dbVars, inbox>>
       ELSE /\ SetDB(MessageCreate(DB, task[t].cid, task[t].userId, task[t].content))
            /\ Deliver(<<EmitNewMessage(
                           OtherParticipant(task[t].conversation, task[t].userId),
                           NewMessage(DB, task[t].cid, task[t].userId, task[t].content))>>)
            /\ task' = [task EXCEPT
                           ![t].message = NewMessage(DB, task[t].cid, task[t].userId,
                                                     task[t].content),
                           ![t].pc = "send_update"]
    /\ UNCHANGED gwVars
\* await prisma.message.create; Message_conversationId_fkey rejects the row
\* when the conversation is gone
SendCreate(t) ==
    /\ task[t].pc = "send_create"
    /\ IF ConversationFindUnique(DB, task[t].cid) = NoRow
       THEN Done(t, Failure("error")) /\ UNCHANGED dbVars
       ELSE /\ SetDB(MessageCreate(DB, task[t].cid, task[t].userId, task[t].content))
            /\ task' = [task EXCEPT
                           ![t].message = NewMessage(DB, task[t].cid, task[t].userId,
                                                     task[t].content),
                           ![t].pc = "send_update"]
    /\ UNCHANGED <<gwVars, inbox>>

\* await prisma.conversation.update (last message, increment)
SendUpdate(t) ==
    /\ task[t].pc = "send_update"
    /\ IF task[t].fault = "update" \/ ConversationFindUnique(DB, task[t].cid) = NoRow
       THEN Done(t, Failure("error")) /\ UNCHANGED dbVars
       ELSE /\ SetDB(ConversationUpdateOnSend(
                         DB, task[t].conversation,
                         task[t].userId = task[t].conversation.participant1Id,
                         task[t].content))
            /\ Goto(t, "send_notify")
    /\ UNCHANGED <<gwVars, inbox>>

\* await this.createMessageNotification(...), not caught; then
\* messagesGateway.emitNewMessage and return message (startConversation
\* returns { conversation, message })
SendNotify(t) ==
    /\ task[t].pc = "send_notify"
    /\ LET receiverId == OtherParticipant(task[t].conversation, task[t].userId)
       IN  IF task[t].fault = "notification"
           THEN Done(t, Failure("error")) /\ UNCHANGED <<dbVars, inbox>>
           ELSE /\ SetDB(NotificationCreate(DB, receiverId, task[t].userId, task[t].cid))
                /\ Deliver(<<EmitNewMessage(receiverId, task[t].message)>>)
                /\ Done(t, Response("ok", task[t].made, task[t].message, <<>>, 0))
    /\ UNCHANGED gwVars

GocSteps(t) == GocUser(t) \/ GocFind(t) \/ GocCreate(t)
SendSteps(t) == SendGet(t) \/ SendCreate(t) \/ SendUpdate(t) \/ SendNotify(t)

\* concurrent getOrCreateConversation calls
NextCreate ==
    \/ \E t \in Tasks, user1Id \in ExistingUsers, user2Id \in UserIds :
          BeginGetOrCreateConversation(t, "getOrCreateConversation", user1Id, user2Id,
                                       NoText, "none")
    \/ \E t \in Tasks : GocSteps(t)

SpecCreate == Init /\ [][NextCreate]_vars

\* concurrent startConversation and sendMessage requests of U1 and U10 to
\* each other, on the conversations there are
Pair == {U1, U10}
ConvIds == {c.id : c \in conversations}

NextSend ==
    \/ \E t \in Tasks, uid \in Pair :
          BeginGetOrCreateConversation(t, "startConversation", uid,
                                       CHOOSE r \in Pair : r # uid, Short, "none")
    \/ \E t \in Tasks, cid \in ConvIds, uid \in Pair, content \in Contents :
          BeginSendMessage(t, cid, uid, content, "none")
    \/ \E t \in Tasks : GocSteps(t)
    \/ \E t \in Tasks : SendSteps(t)

SpecSend == Init /\ [][NextSend]_vars

\* the same, a Prisma call of sendMessage rejecting now and then
NextSendFaults ==
    \/ \E t \in Tasks, uid \in Pair :
          BeginGetOrCreateConversation(t, "startConversation", uid,
                                       CHOOSE r \in Pair : r # uid, Short, "none")
    \/ \E t \in Tasks, cid \in ConvIds, uid \in Pair, fault \in Faults :
          BeginSendMessage(t, cid, uid, Short, fault)
    \/ \E t \in Tasks : GocSteps(t)
    \/ \E t \in Tasks : SendSteps(t)

SpecSendFaults == Init /\ [][NextSendFaults]_vars

\* deleteConversation up to its first await
BeginDeleteConversation(t, cid, uid) ==
    /\ CanBegin(t)
    /\ task' = [task EXCEPT ![t] =
                   [IdleTask EXCEPT !.op = "deleteConversation", !.userId = uid,
                                    !.cid = cid, !.pc = "del_get"]]
    /\ UNCHANGED <<dbVars, gwVars, inbox>>

\* await this.getConversation(conversationId, userId)
DelGet(t) ==
    /\ task[t].pc = "del_get"
    /\ LET got == GetConversation(DB, task[t].cid, task[t].userId)
       IN  IF got.status # "ok" THEN Done(t, got) ELSE Goto(t, "del_messages")
    /\ UNCHANGED <<dbVars, gwVars, inbox>>

\* await prisma.message.deleteMany
DelMessages(t) ==
    /\ task[t].pc = "del_messages"
    /\ SetDB(MessageDeleteMany(DB, task[t].cid))
    /\ Goto(t, "del_conversation")
    /\ UNCHANGED <<gwVars, inbox>>

\* await prisma.conversation.delete, which rejects when the row is gone
DelConversation(t) ==
    /\ task[t].pc = "del_conversation"
    /\ IF ConversationFindUnique(DB, task[t].cid) = NoRow
       THEN Done(t, Failure("error")) /\ UNCHANGED dbVars
       ELSE /\ SetDB(ConversationDelete(DB, task[t].cid))
            /\ Done(t, Response("ok", NoRow, NoRow, <<>>, 0))
    /\ UNCHANGED <<gwVars, inbox>>

DelSteps(t) == DelGet(t) \/ DelMessages(t) \/ DelConversation(t)

\* U1 and U10 start their conversation, send on it and delete it, all at once
NextDelete ==
    \/ \E t \in Tasks, uid \in Pair :
          BeginGetOrCreateConversation(t, "startConversation", uid,
                                       CHOOSE r \in Pair : r # uid, Short, "none")
    \/ \E t \in Tasks, cid \in ConvIds, uid \in Pair :
          BeginSendMessage(t, cid, uid, Short, "none")
    \/ \E t \in Tasks, cid \in ConvIds, uid \in Pair : BeginDeleteConversation(t, cid, uid)
    \/ \E t \in Tasks : GocSteps(t)
    \/ \E t \in Tasks : SendSteps(t)
    \/ \E t \in Tasks : DelSteps(t)

SpecDelete == Init /\ [][NextDelete]_vars

\* markMessagesAsRead up to its first await
BeginMarkAsRead(t, cid, uid) ==
    /\ CanBegin(t)
    /\ task' = [task EXCEPT ![t] =
                   [IdleTask EXCEPT !.op = "markMessagesAsRead", !.userId = uid,
                                    !.cid = cid, !.pc = "mark_get"]]
    /\ UNCHANGED <<dbVars, gwVars, inbox>>

\* await this.getConversation(conversationId, userId)
MarkGet(t) ==
    /\ task[t].pc = "mark_get"
    /\ LET got == GetConversation(DB, task[t].cid, task[t].userId)
       IN  IF got.status # "ok" THEN Done(t, got)
           ELSE task' = [task EXCEPT ![t].conversation = got.conversation,
                                     ![t].pc = "mark_reset"]
    /\ UNCHANGED <<dbVars, gwVars, inbox>>

\* await prisma.conversation.update: the reader's counter becomes 0
MarkReset(t) ==
    /\ task[t].pc = "mark_reset"
    /\ IF ConversationFindUnique(DB, task[t].cid) = NoRow
       THEN Done(t, Failure("error")) /\ UNCHANGED dbVars
       ELSE /\ SetDB(ConversationResetUnread(
                         DB, task[t].cid,
                         task[t].userId = task[t].conversation.participant1Id))
            /\ Goto(t, "mark_update")
    /\ UNCHANGED <<gwVars, inbox>>

\* await prisma.message.updateMany, then messagesGateway.emitMessageRead and
\* the return
MarkUpdate(t) ==
    /\ task[t].pc = "mark_update"
    /\ LET otherUserId == OtherParticipant(task[t].conversation, task[t].userId)
       IN  /\ SetDB(MessageUpdateManyRead(DB, task[t].cid, otherUserId))
           /\ Deliver(<<EmitMessageRead(otherUserId, task[t].cid)>>)
    /\ Done(t, Response("ok", NoRow, NoRow, <<>>, 0))
    /\ UNCHANGED gwVars

MarkSteps(t) == MarkGet(t) \/ MarkReset(t) \/ MarkUpdate(t)

\* U1 and U10 write to each other and mark as read, all at once
NextRead ==
    \/ \E t \in Tasks, uid \in Pair :
          BeginGetOrCreateConversation(t, "startConversation", uid,
                                       CHOOSE r \in Pair : r # uid, Short, "none")
    \/ \E t \in Tasks, cid \in ConvIds, uid \in Pair :
          BeginSendMessage(t, cid, uid, Short, "none")
    \/ \E t \in Tasks, cid \in ConvIds, uid \in Pair : BeginMarkAsRead(t, cid, uid)
    \/ \E t \in Tasks : GocSteps(t)
    \/ \E t \in Tasks : SendSteps(t)
    \/ \E t \in Tasks : MarkSteps(t)

SpecRead == Init /\ [][NextRead]_vars

(* --------------------------- MessagesGateway -------------------------- *)
\* A connection s: socket[s].pc is where handleConnection(s) stands ("new":
\* not opened, "verifying": awaiting jwtService.verifyAsync, "done"),
\* socket[s].connected whether the transport is open.  Connections are opened
\* in order, each once (a socket id is never used again).
ValidToken(uid) == [kind |-> "valid", sub |-> uid]
InvalidToken == [kind |-> "invalid", sub |-> NoUser]
Tokens == {NoToken, InvalidToken} \cup {ValidToken(uid) : uid \in Pair}

\* MessagesGateway.isUserOnline
IsUserOnline(uid) == uid \in DOMAIN userSockets

\* MessagesGateway.handleDisconnect: the registry it leaves
AfterHandleDisconnect(s) ==
    IF s \in DOMAIN socketUsers
    THEN <<MapDelete(userSockets, socketUsers[s]), MapDelete(socketUsers, s)>>
    ELSE <<userSockets, socketUsers>>

\* ... and its server.emit('user-offline', { userId })
OfflineEmits(s) ==
    IF s \in DOMAIN socketUsers
    THEN <<Emit(Everyone, Event("user-offline", NoId, NoRow, socketUsers[s], FALSE))>>
    ELSE <<>>

\* The transport of s closes (client.disconnect() by the server, or the
\* client or the network): socket.io takes s out of its rooms and the
\* 'disconnect' handler handleDisconnect(s) runs, its broadcast reaching
\* the sockets that are still connected.
Close(s) ==
    /\ rooms' = [rooms EXCEPT ![s] = {}]
    /\ userSockets' = AfterHandleDisconnect(s)[1]
    /\ socketUsers' = AfterHandleDisconnect(s)[2]
    /\ inbox' = [o \in Sockets |->
                    IF o # s /\ socket[o].connected
                    THEN inbox[o] \cup {e.ev : e \in Range(OfflineEmits(s))}
                    ELSE inbox[o]]

\* handleConnection up to its await: a handshake without token is refused
HandleConnection(s, token) ==
    /\ socket[s].pc = "new"
    /\ \A o \in Sockets : o < s => socket[o].pc # "new"
    /\ IF token.kind = "none"
       THEN /\ socket' = [socket EXCEPT ![s] = [NewSocket EXCEPT !.token = token,
                                                                 !.pc = "done"]]
            /\ Close(s)
       ELSE /\ socket' = [socket EXCEPT ![s] = [NewSocket EXCEPT !.token = token,
                                                                 !.pc = "verifying",
                                                                 !.connected = TRUE]]
            /\ UNCHANGED <<userSockets, socketUsers, rooms, inbox>>
    /\ UNCHANGED <<dbVars, task>>

\* verifyAsync resolves: bind, join `user:${userId}`, acknowledge, announce.
\* client.emit reaches s and client.join counts only while s is connected.
HandleConnectionVerified(s) ==
    /\ socket[s].pc = "verifying"
    /\ socket[s].token.kind = "valid"
    /\ LET userId == socket[s].token.sub
           joined == [rooms EXCEPT ![s] = @ \cup {UserRoom(userId)}]
           ack == Event("connected", NoId, NoRow, userId, FALSE)
           online == Event("user-online", NoId, NoRow, userId, FALSE)
       IN  /\ userSockets' = MapSet(userSockets, userId, s)
           /\ socketUsers' = MapSet(socketUsers, s, userId)
           /\ rooms' = joined
           /\ inbox' = [o \in Sockets |->
                           IF ~socket[o].connected THEN inbox[o]
                           ELSE IF o = s THEN inbox[o] \cup {ack, online}
                           ELSE inbox[o] \cup {online}]
    /\ socket' = [socket EXCEPT ![s].pc = "done"]
    /\ UNCHANGED <<dbVars, task>>

\* verifyAsync rejects: the catch block disconnects the client
HandleConnectionRejected(s) ==
    /\ socket[s].pc = "verifying"
    /\ socket[s].token.kind = "invalid"
    /\ socket' = [socket EXCEPT ![s].pc = "done", ![s].connected = FALSE]
    /\ IF socket[s].connected THEN Close(s)
       ELSE UNCHANGED <<userSockets, socketUsers, rooms, inbox>>
    /\ UNCHANGED <<dbVars, task>>

\* the client closes the connection or the network drops it
Disconnect(s) ==
    /\ socket[s].connected
    /\ socket' = [socket EXCEPT ![s].connected = FALSE]
    /\ Close(s)
    /\ UNCHANGED <<dbVars, task>>

\* what a handler returns to the connection that sent the event
Reply(event, cid, ack) == [event |-> event, conversationId |-> cid, ack |-> ack]

\* the rooms and the reply handleJoinConversation leaves, userId being found
\* (bound) or not
Joined(s, cid, bound) ==
    IF bound
    THEN [rooms |-> [rooms EXCEPT ![s] = @ \cup {ConversationRoom(cid)}],
          reply |-> Reply("join-conversation", cid, "success")]
    ELSE [rooms |-> rooms, reply |-> Reply("join-conversation", cid, "error")]

\* the bodies clients send with 'typing': the three fields the handler reads
\* and a userId field, which a client is free to add
TypingPayloads(cids) ==
    [conversationId : cids, receiverId : Pair, isTyping : {TRUE}, userId : Pair]

\* what handleTyping emits for the event data from connection s
TypingEmitsClaimedId(s, data) ==
    IF s \in DOMAIN socketUsers
    THEN <<EmitTyping(data.receiverId, data.conversationId, data.userId, data.isTyping)>>
    ELSE <<>>
TypingEmits(s, data) ==
    IF s \in DOMAIN socketUsers
    THEN <<EmitTyping(data.receiverId, data.conversationId, socketUsers[s], data.isTyping)>>
    ELSE <<>>

\* MessagesGateway.handleTyping, on a 'typing' event from s
HandleTyping(s, data) ==
    /\ socket[s].connected
    /\ Deliver(TypingEmits(s, data))
    /\ socket' = [socket EXCEPT ![s].reply = Reply("typing", data.conversationId, "none")]
    /\ UNCHANGED <<dbVars, task, userSockets, socketUsers, rooms>>

\* MessagesGateway.handleJoinConversation, on a 'join-conversation' event
JoinConversation(s, cid) == Joined(s, cid, s \in DOMAIN socketUsers)
HandleJoinConversation(s, cid) ==
    /\ socket[s].connected
    /\ socket' = [socket EXCEPT ![s].reply = JoinConversation(s, cid).reply]
    /\ rooms' = JoinConversation(s, cid).rooms
    /\ UNCHANGED <<dbVars, task, userSockets, socketUsers, inbox>>

\* MessagesGateway.handleLeaveConversation, on a 'leave-conversation' event
HandleLeaveConversation(s, cid) ==
    /\ socket[s].connected
    /\ IF s \in DOMAIN socketUsers
       THEN /\ rooms' = [rooms EXCEPT ![s] = @ \ {ConversationRoom(cid)}]
            /\ socket' = [socket EXCEPT ![s].reply = Reply("leave-conversation", cid, "success")]
       ELSE /\ rooms' = rooms
            /\ socket' = [socket EXCEPT ![s].reply = Reply("leave-conversation", cid, "error")]
    /\ UNCHANGED <<dbVars, task, userSockets, socketUsers, inbox>>

\* connections come and go while U1 and U10 write to each other
NextGateway ==
    \/ \E s \in Sockets, token \in Tokens : HandleConnection(s, token)
    \/ \E s \in Sockets : HandleConnectionVerified(s)
    \/ \E s \in Sockets : HandleConnectionRejected(s)
    \/ \E s \in Sockets : Disconnect(s)
    \/ \E s \in Sockets, data \in TypingPayloads(ConvIds) : HandleTyping(s, data)
    \/ \E uid \in Pair : CallStartConversation(uid, CHOOSE r \in Pair : r # uid, Short)
    \/ \E cid \in ConvIds, uid \in Pair : CallSendMessage(cid, uid, Short)

SpecGateway == Init /\ [][NextGateway]_vars

\* connections come and go and send 'typing', 'join-conversation' and
\* 'leave-conversation' events naming any conversation id
NamedByClients == 1..MaxConversations
NextEvents ==
    \/ \E s \in Sockets, token \in Tokens : HandleConnection(s, token)
    \/ \E s \in Sockets : HandleConnectionVerified(s)
    \/ \E s \in Sockets : HandleConnectionRejected(s)
    \/ \E s \in Sockets : Disconnect(s)
    \/ \E s \in Sockets, data \in TypingPayloads(NamedByClients) : HandleTyping(s, data)
    \/ \E s \in Sockets, cid \in NamedByClients : HandleJoinConversation(s, cid)
    \/ \E s \in Sockets, cid \in NamedByClients : HandleLeaveConversation(s, cid)

SpecEvents == Init /\ [][NextEvents]_vars

\* connections come and go and send 'typing' events naming any conversation
\* id and either user, while the two users may or may not have started their
\* conversation
NextTyping ==
    \/ \E s \in Sockets, token \in Tokens : HandleConnection(s, token)
    \/ \E s \in Sockets : HandleConnectionVerified(s)
    \/ \E s \in Sockets : HandleConnectionRejected(s)
    \/ \E s \in Sockets : Disconnect(s)
    \/ \E s \in Sockets, data \in TypingPayloads(NamedByClients) : HandleTyping(s, data)
    \/ \E uid \in Pair : CallStartConversation(uid, CHOOSE r \in Pair : r # uid, Short)

SpecTyping == Init /\ [][NextTyping]_vars

\* The same, verifyAsync being a call into the authentication collaborator
\* that may leave its promise unsettled (StalledToken).  What the event loop
\* guarantees is that handleConnection resumes once the promise has settled;
\* nothing obliges a client to connect, to send events or to disconnect.
StalledToken == [kind |-> "stalled", sub |-> NoUser]
NextConnect ==
    \/ NextEvents
    \/ \E s \in Sockets : HandleConnection(s, StalledToken)

\* U10 connects on the first connection and U1 on the others, or not at
\* all; U1 writes to U10, who marks as read; a Prisma call of sendMessage
\* rejects now and then
NextPush ==
    \/ \E s \in Sockets : HandleConnection(s, ValidToken(IF s = 1 THEN U10 ELSE U1))
    \/ \E s \in Sockets : HandleConnectionVerified(s)
    \/ \E t \in Tasks :
          BeginGetOrCreateConversation(t, "startConversation", U1, U10, Short, "none")
    \/ \E t \in Tasks, cid \in ConvIds, fault \in Faults :
          BeginSendMessage(t, cid, U1, Short, fault)
    \/ \E t \in Tasks, cid \in ConvIds : BeginMarkAsRead(t, cid, U10)
    \/ \E t \in Tasks : GocSteps(t)
    \/ \E t \in Tasks : SendSteps(t)
    \/ \E t \in Tasks : MarkSteps(t)

SpecPush == Init /\ [][NextPush]_vars

SpecConnectFair ==
    /\ Init /\ [][NextConnect]_vars
    /\ \A s \in Sockets : WF_vars(HandleConnectionVerified(s))
    /\ \A s \in Sockets : WF_vars(HandleConnectionRejected(s))

(* ------------------ claims on requests served in turn ----------------- *)
Participants(c) == {c.participant1Id, c.participant2Id}
MessagesOf(c) == {m \in messages : m.conversationId = c.id}
UnreadCountOf(c, uid) == IF uid = c.participant1Id THEN c.unreadCount1 ELSE c.unreadCount2

\* messages of c written by author that the other participant has not read
UnreadFrom(c, author) == {m \in MessagesOf(c) : m.senderId = author /\ ~m.read}
\* ... and has not deleted on the receiving side
VisibleUnreadFrom(c, author) ==
    {m \in UnreadFrom(c, author) : ~m.deletedByReceiver /\ m.deletedAt = NoTime}

NoDeletionIn(c) ==
    \A m \in MessagesOf(c) :
        m.deletedAt = NoTime /\ ~m.deletedBySender /\ ~m.deletedByReceiver

\* C2: with no request in flight, each participant's unread counter is the
\* number of messages of the conversation written by the other participant
\* that are unread and not deleted for the counter's owner.
C2_UnreadMatchesVisibleUnread ==
    \A c \in conversations :
        /\ c.unreadCount1 = Cardinality(VisibleUnreadFrom(c, c.participant2Id))
        /\ c.unreadCount2 = Cardinality(VisibleUnreadFrom(c, c.participant1Id))

\* C4: on a conversation the caller is no participant of, every request
\* answers "forbidden", hands back no data, pushes nothing and writes nothing.
Refused(out) == out = Outcome(DB, Failure("forbidden"), <<>>)

C4_NonParticipantForbidden ==
    \A c \in conversations : \A uid \in ExistingUsers \ Participants(c) :
        /\ GetConversation(DB, c.id, uid) = Failure("forbidden")
        /\ \A page \in Pages, limit \in Limits : Refused(GetMessages(DB, c.id, uid, page, limit))
        /\ \A content \in Contents : Refused(SendMessage(DB, c.id, uid, content))
        /\ Refused(MarkMessagesAsRead(DB, c.id, uid))
        /\ Refused(GetConversationUnreadCount(DB, c.id, uid))
        /\ Refused(DeleteConversation(DB, c.id, uid))
        /\ \A m \in MessagesOf(c), deleteFor \in Scopes :
              Refused(DeleteMessage(DB, m.id, uid, deleteFor))

\* a conversation with a message and a nonzero counter, and a registered user
\* outside it whose delete-for-both is refused
C4_Witness ==
    \E c \in conversations : \E uid \in ExistingUsers \ Participants(c) :
        \E m \in MessagesOf(c) :
            /\ c.unreadCount1 + c.unreadCount2 > 0
            /\ DeleteMessage(DB, m.id, uid, "both").res.status = "forbidden"

\* the first message of a new conversation, as startConversation leaves it
FirstMessageCounted(uid, receiverId, content) ==
    LET out == StartConversation(DB, uid, receiverId, content)
        row == ConversationFindUnique(out.d, out.res.conversation.id)
    IN  (out.res.status = "ok" /\ ~\E c \in conversations : Participants(c) = {uid, receiverId})
        => /\ UnreadCountOf(row, receiverId) = 1
           /\ UnreadCountOf(row, uid) = 0
           /\ out.res.message.read = FALSE
           /\ out.res.message \in out.d.messages
           /\ out.res.message.senderId = uid

\* C9: in a conversation where nothing was deleted, each side's unread counter
\* is the number of unread messages written by the other side, the two
\* counters add up to the unread messages of the conversation, and the first
\* message from A to B leaves B's counter 1, A's 0 and the message unread.
C9_UnreadMatchesWithoutDeletions ==
    /\ \A c \in conversations :
          NoDeletionIn(c) =>
              /\ c.unreadCount1 = Cardinality(UnreadFrom(c, c.participant2Id))
              /\ c.unreadCount2 = Cardinality(UnreadFrom(c, c.participant1Id))
              /\ c.unreadCount1 + c.unreadCount2
                     = Cardinality({m \in MessagesOf(c) : ~m.read})
    /\ \A uid \in ExistingUsers, receiverId \in UserIds, content \in Contents :
          FirstMessageCounted(uid, receiverId, content)

\* both sides have written, one message is read and the other is not
C9_Witness ==
    \E c \in conversations : \E m1, m2 \in MessagesOf(c) :
        /\ NoDeletionIn(c)
        /\ m1.senderId # m2.senderId
        /\ m1.read /\ ~m2.read
        /\ UnreadCountOf(c, m1.senderId) = 1
        /\ UnreadCountOf(c, m2.senderId) = 0

\* C10: markMessagesAsRead by participant uid zeroes uid's counter, marks the
\* other participant's unread messages read with a readAt, leaves the other
\* counter and every other message as they were, and a second call changes
\* neither counters nor messages.
MarkReadEffect(c, uid) ==
    LET other == OtherParticipant(c, uid)
        out == MarkMessagesAsRead(DB, c.id, uid)
        row == ConversationFindUnique(out.d, c.id)
        again == MarkMessagesAsRead(out.d, c.id, uid)
    IN  /\ out.res.status = "ok"
        /\ UnreadCountOf(row, uid) = 0
        /\ UnreadCountOf(row, other) = UnreadCountOf(c, other)
        /\ \A m \in messages :
              IF m \in UnreadFrom(c, other)
              THEN [m EXCEPT !.read = TRUE, !.readAt = now] \in out.d.messages /\ now # NoTime
              ELSE m \in out.d.messages
        /\ Cardinality(out.d.messages) = Cardinality(messages)
        /\ again.res.status = "ok"
        /\ again.d.conversations = out.d.conversations
        /\ again.d.messages = out.d.messages

C10_MarkReadResetsAndIsIdempotent ==
    \A c \in conversations : \A uid \in Participants(c) : MarkReadEffect(c, uid)

\* a reader has marked the conversation read and the writer has written
\* again: one message read with its readAt, a later one of the same writer
\* unread
C10_Witness ==
    \E c \in conversations : \E m1, m2 \in MessagesOf(c) :
        /\ m1.senderId = m2.senderId
        /\ m1.read /\ m1.readAt # NoTime /\ m1.readAt < now
        /\ ~m2.read
        /\ UnreadCountOf(c, OtherParticipant(c, m1.senderId)) = 1

(* ----------------- claims on requests served concurrently ------------- *)
\* C1: whatever the interleaving of getOrCreateConversation calls, there is at
\* most one conversation row per unordered pair of users, and every row has
\* participant1Id < participant2Id.
C1_OneConversationPerPair ==
    /\ \A c1, c2 \in conversations : Participants(c1) = Participants(c2) => c1 = c2
    /\ \A c \in conversations : StrLess(c.participant1Id, c.participant2Id)

\* (u1,u2) and (u2,u1) raced while no row existed: one call created the row,
\* the other ran into the unique index
C1_Witness ==
    \E t1, t2 \in Tasks :
        /\ task[t1].pc = "done" /\ task[t2].pc = "done"
        /\ task[t1].userId = task[t2].targetId /\ task[t1].targetId = task[t2].userId
        /\ task[t1].res.status = "ok" /\ task[t2].res.status = "error"
        /\ \E c \in conversations : Participants(c) = {task[t1].userId, task[t1].targetId}

\* sends of author in conversation c that have created their message and not
\* yet updated the conversation
AwaitingUpdate(c, author) ==
    {t \in Tasks : task[t].pc = "send_update" /\ task[t].cid = c.id /\ task[t].userId = author}

\* C3: every send that has got past its conversation update has raised the
\* receiver's counter by exactly one and left the sender's alone, also when
\* the sends overlap: the receiver's counter is the number of the author's
\* messages whose send has done its update.
C3_ConcurrentSendsAllCounted ==
    \A c \in conversations : \A author \in Participants(c) :
        UnreadCountOf(c, OtherParticipant(c, author)) + Cardinality(AwaitingUpdate(c, author))
            = Cardinality({m \in MessagesOf(c) : m.senderId = author})

\* two sends of one sender read the same counter value before either updated
\* it; one has updated since, the other is about to
C3_Witness ==
    \E t1, t2 \in Tasks :
        /\ t1 # t2
        /\ task[t1].userId = task[t2].userId /\ task[t1].cid = task[t2].cid
        /\ task[t1].pc = "send_notify" /\ task[t2].pc = "send_update"
        /\ task[t1].conversation.unreadCount1 = task[t2].conversation.unreadCount1
        /\ task[t1].conversation.unreadCount2 = task[t2].conversation.unreadCount2

\* C6: a send whose notification.create rejected still answers ok with the
\* message, which stays persisted.
C6_NotificationFailureSwallowed ==
    \A t \in Tasks :
        (task[t].pc = "done" /\ task[t].fault = "notification" /\ task[t].message # NoRow)
        => /\ task[t].res.status = "ok"
           /\ task[t].res.message = task[t].message
           /\ task[t].message \in messages

(* ----------------------- claims on the gateway ------------------------ *)
Unauthenticated(s) == socket[s].token.kind \in {"none", "invalid"}
Opened(s) == socket[s].pc # "new"
Finished(s) == socket[s].pc = "done"
BoundTo(s) == {uid \in DOMAIN userSockets : userSockets[uid] = s}

\* C5: a connection is bound and in a user's room only once its token has
\* been verified, and then only for the user the token names; a connection
\* without token or with a token that fails verification ends disconnected,
\* is never bound and never receives the acknowledgment or any other event.
C5_OnlyVerifiedConnectionsServed ==
    \A s \in Sockets :
        /\ (s \in DOMAIN socketUsers \/ BoundTo(s) # {} \/ rooms[s] # {})
              => /\ socket[s].token.kind = "valid"
                 /\ Finished(s)
                 /\ s \in DOMAIN socketUsers => socketUsers[s] = socket[s].token.sub
                 /\ BoundTo(s) \subseteq {socket[s].token.sub}
                 /\ {r \in rooms[s] : r.user # NoUser}
                       \subseteq {UserRoom(socket[s].token.sub)}
        /\ (Opened(s) /\ Unauthenticated(s))
              => /\ Finished(s) => ~socket[s].connected
                 /\ s \notin DOMAIN socketUsers
                 /\ BoundTo(s) = {}
                 /\ inbox[s] = {}

\* C7: once a connection has disconnected and handleConnection and
\* handleDisconnect have both finished for it, neither map of the registry
\* mentions it.
C7_NoBindingAfterDisconnect ==
    \A s \in Sockets :
        (Finished(s) /\ ~socket[s].connected)
            => s \notin DOMAIN socketUsers /\ BoundTo(s) = {}

\* C8: a send to receiver R always persists the message, which R then finds
\* in the conversation's listing; the new-message event carrying the record
\* reaches the connection bound to R if R is online at that moment, and no
\* connection receives anything if R is not.
ReceiverIn(d, m) ==
    OtherParticipant(CHOOSE c \in d.conversations : c.id = m.conversationId, m.senderId)
C8_PushExactlyWhenOnline ==
    [][\A m \in messages' \ messages :
          LET receiverId == ReceiverIn(DB', m)
          IN  /\ m \in Range(GetMessages(DB', m.conversationId, receiverId, 1,
                                         DefaultLimit).res.data)
              /\ IsUserOnline(receiverId)
                    => EmitNewMessage(receiverId, m).ev \in inbox'[userSockets[receiverId]]
              /\ ~IsUserOnline(receiverId) => inbox' = inbox]_vars

(* ------------------- claims on listing and deleting ------------------- *)
\* what getMessages(cid, uid) lists on its first page with the default limit
Listing(d, cid, uid) == Range(GetMessages(d, cid, uid, 1, DefaultLimit).res.data)
Listed(d, mid, cid, uid) == \E x \in Listing(d, cid, uid) : x.id = mid
HiddenFrom(m, uid) ==
    IF m.senderId = uid THEN m.deletedBySender ELSE m.deletedByReceiver

\* C11: getMessages lists a message to participant P exactly when its
\* deletedAt is unset and P's own side flag is false; a sender-scope delete
\* hides it from the sender only, a receiver-scope delete from the receiver
\* only, a both-scope delete from both participants.
C11_ListedUnlessDeletedForViewer ==
    \A c \in conversations : \A m \in MessagesOf(c) :
        LET sender == m.senderId
            receiver == OtherParticipant(c, m.senderId)
            bySender == DeleteMessage(DB, m.id, sender, "sender").d
            byReceiver == DeleteMessage(DB, m.id, receiver, "receiver").d
        IN  /\ \A p \in Participants(c) :
                  m \in Listing(DB, c.id, p) <=> (m.deletedAt = NoTime /\ ~HiddenFrom(m, p))
            /\ ~Listed(bySender, m.id, c.id, sender)
            /\ Listed(bySender, m.id, c.id, receiver) <=> m \in Listing(DB, c.id, receiver)
            /\ ~Listed(byReceiver, m.id, c.id, receiver)
            /\ Listed(byReceiver, m.id, c.id, sender) <=> m \in Listing(DB, c.id, sender)
            /\ \A p, q \in Participants(c) :
                  ~Listed(DeleteMessage(DB, m.id, p, "both").d, m.id, c.id, q)

\* a message deleted for one side only is in the table, and one still
\* listed to both
C11_Witness ==
    \E c \in conversations : \E m, o \in MessagesOf(c) :
        /\ m.deletedAt = NoTime /\ m.deletedBySender /\ ~m.deletedByReceiver
        /\ m \in Listing(DB, c.id, OtherParticipant(c, m.senderId))
        /\ o.deletedAt = NoTime /\ ~o.deletedBySender /\ ~o.deletedByReceiver

\* C12: deleteMessage answers not-found for a message that does not exist,
\* forbidden for scope sender from the non-author and for scope receiver from
\* the author, leaving the message untouched; scope both is accepted from
\* either participant and sets deletedAt and both side flags.
C12_DeleteMessageRejections ==
    /\ \A uid \in ExistingUsers, scope \in Scopes :
          LET out == DeleteMessage(DB, nextMsgId, uid, scope)
          IN  out.res.status = "not_found" /\ out.d = DB
    /\ \A c \in conversations : \A m \in MessagesOf(c) : \A uid \in Participants(c) :
          LET wrong == IF uid = m.senderId THEN "receiver" ELSE "sender"
              right == IF uid = m.senderId THEN "sender" ELSE "receiver"
              refused == DeleteMessage(DB, m.id, uid, wrong)
              both == DeleteMessage(DB, m.id, uid, "both")
              after == MessageFindUnique(both.d, m.id)
          IN  /\ refused.res.status = "forbidden" /\ refused.d = DB
              /\ DeleteMessage(DB, m.id, uid, right).res.status = "ok"
              /\ both.res.status = "ok"
              /\ after.deletedAt # NoTime /\ after.deletedBySender /\ after.deletedByReceiver
              /\ both.d.messages \ {after} = messages \ {m}

\* a message deleted for both sides next to one that nobody deleted
C12_Witness ==
    \E m, o \in messages :
        /\ m.deletedAt # NoTime /\ m.deletedBySender /\ m.deletedByReceiver
        /\ o.deletedAt = NoTime /\ ~o.deletedBySender /\ ~o.deletedByReceiver

\* C13: after sendMessage has returned message m, page 1 of getMessages for
\* either participant holds m exactly once, after every message of the
\* conversation created before it.
PositionsOf(seq, mid) == {i \in 1..Len(seq) : seq[i].id = mid}
C13_SentMessageListedOnceInOrder ==
    \A c \in conversations : \A sender \in Participants(c) : \A content \in Contents :
        LET sent == SendMessage(DB, c.id, sender, content)
            m == sent.res.message
        IN  \A p \in Participants(c) : \A limit \in Limits :
                LET data == GetMessages(sent.d, c.id, p, 1, limit).res.data
                    at == PositionsOf(data, m.id)
                IN  /\ sent.res.status = "ok"
                    /\ Cardinality(at) = 1
                    /\ \A i \in at : data[i] = m
                    /\ \A i \in at : \A j \in 1..Len(data) :
                          data[j].createdAt < m.createdAt => j < i
                    /\ limit = DefaultLimit
                          => \A o \in Listing(DB, c.id, p) : PositionsOf(data, o.id) # {}

\* a second message has been sent and both participants see it listed after
\* the first
C13_Witness ==
    \E c \in conversations : \E o, m \in MessagesOf(c) :
        /\ o.createdAt < m.createdAt
        /\ \A p \in Participants(c) :
              GetMessages(DB, c.id, p, 1, DefaultLimit).res.data = <<o, m>>

(* ------------------ claims on starting a conversation ----------------- *)
\* what getOrCreateConversation(a, b) and startConversation(a, b) must answer
\* when a = b (selfStatus), when b does not exist and when b has disabled
\* messages, changing nothing and pushing nothing
RejectionsWith(selfStatus) ==
    \A a \in ExistingUsers, b \in UserIds :
        LET out == GetOrCreateConversation(DB, a, b)
            started == StartConversation(DB, a, b, Short)
            expected == IF a = b THEN selfStatus
                        ELSE IF b \notin ExistingUsers THEN "not_found"
                        ELSE IF ~users[b].allowMessages THEN "forbidden"
                        ELSE "ok"
        IN  /\ out.res.status = expected
            /\ started.res.status = expected
            /\ expected # "ok"
                  => /\ out.d = DB /\ started.d = DB
                     /\ started.emits = <<>> /\ started.res.message = NoRow

Admitted(t) ==
    /\ task[t].op = "getOrCreateConversation"
    /\ task[t].userId # task[t].targetId
    /\ task[t].targetId \in ExistingUsers
    /\ users[task[t].targetId].allowMessages
C15_RaceLoserRefetches ==
    \A t1, t2 \in Tasks :
        (/\ task[t1].pc = "done" /\ task[t2].pc = "done"
         /\ Admitted(t1) /\ Admitted(t2)
         /\ SortPair(task[t1].userId, task[t1].targetId)
               = SortPair(task[t2].userId, task[t2].targetId))
            => /\ task[t1].res.status = "ok" /\ task[t2].res.status = "ok"
               /\ task[t2].res.conversation.id = task[t1].res.conversation.id

\* C16: under any interleaving of concurrent sends a counter never counts a
\* message whose row is not persisted yet: the receiver's counter is at most
\* the number of the author's message rows, and a send that has passed its
\* conversation update has its row in the table.
Touched(t) == task[t].op \in {"sendMessage", "startConversation"}
                 /\ (task[t].pc = "send_notify"
                        \/ (task[t].pc = "done" /\ task[t].res.status = "ok"))
C16_AppendBeforeTouch ==
    /\ \A c \in conversations : \A author \in Participants(c) :
          UnreadCountOf(c, OtherParticipant(c, author))
              <= Cardinality({m \in MessagesOf(c) : m.senderId = author})
    /\ \A c \in conversations :
          c.lastMessageText # NoText => MessagesOf(c) # {}
    /\ \A t \in Tasks : Touched(t) => task[t].message \in messages

\* a send between its two writes: the row is there, the counter not yet
\* incremented
C16_Witness ==
    \E t \in Tasks : \E c \in conversations :
        /\ task[t].pc = "send_update" /\ task[t].cid = c.id
        /\ task[t].message \in messages
        /\ UnreadCountOf(c, OtherParticipant(c, task[t].userId))
              < Cardinality({m \in MessagesOf(c) : m.senderId = task[t].userId})

(* ------------------- claims on events from clients ------------------- *)
\* C17: a typing, join-conversation or leave-conversation event from a
\* connection without binding is dropped (nothing is emitted, no room is
\* joined or left) and is answered with an error acknowledgment.
C17_UnboundEventsRefusedWithError ==
    [][\A s \in Sockets :
          (s \notin DOMAIN socketUsers /\ socket'[s].reply # socket[s].reply)
              => /\ socket'[s].reply.ack = "error"
                 /\ rooms' = rooms
                 /\ inbox' = inbox]_vars

(* ------------------ claims on deleting a conversation ----------------- *)
DeletedIds ==
    {task[t].cid : t \in {x \in Tasks : /\ task[x].op = "deleteConversation"
                                        /\ task[x].pc = "done"
                                        /\ task[x].res.status = "ok"}}

\* C18: once deleteConversation(c) has completed, no message row of c is left
\* in any later state, whatever sends on c were in flight, and getConversation,
\* getMessages, sendMessage, markMessagesAsRead and deleteConversation on c
\* answer not-found.
C18_DeletedConversationIsGone ==
    /\ \A m \in messages : \E c \in conversations : c.id = m.conversationId
    /\ \A cid \in DeletedIds :
          /\ \A c \in conversations : c.id # cid
          /\ \A m \in messages : m.conversationId # cid
          /\ \A uid \in ExistingUsers :
                /\ GetConversation(DB, cid, uid).status = "not_found"
                /\ GetMessages(DB, cid, uid, 1, DefaultLimit).res.status = "not_found"
                /\ SendMessage(DB, cid, uid, Short).res.status = "not_found"
                /\ MarkMessagesAsRead(DB, cid, uid).res.status = "not_found"
                /\ DeleteConversation(DB, cid, uid).res.status = "not_found"

\* a deletion has completed while a send on the same conversation, which
\* had already stored its row, was in flight
C18_Witness ==
    \E t1, t2 \in Tasks :
        /\ task[t1].cid \in DeletedIds /\ task[t1].op = "deleteConversation"
        /\ task[t2].op \in {"sendMessage", "startConversation"}
        /\ task[t2].cid = task[t1].cid
        /\ task[t2].message # NoRow
        /\ task[t2].message \notin messages

(* ------------------------ claims on failed sends ---------------------- *)
Quiescent == \A t \in Tasks : task[t].pc \in {"idle", "done"}

\* C19: a sendMessage whose persistence step fails after the message row has
\* been created leaves no half-applied state: once no send is in flight, each
\* stored message of an author is counted in the receiver's counter and named
\* by the last-message text, and the connection registry is as it was.
C19_FailedSendNotHalfApplied ==
    Quiescent =>
        /\ \A c \in conversations : \A author \in Participants(c) :
              UnreadCountOf(c, OtherParticipant(c, author))
                  = Cardinality({m \in MessagesOf(c) : m.senderId = author})
        /\ \A c \in conversations : MessagesOf(c) # {} => c.lastMessageText # NoText
        /\ userSockets = EmptyMap /\ socketUsers = EmptyMap

(* -------------------- claims on connection set-up --------------------- *)
\* C20: authentication on connect is bounded: every connection that is
\* connected without binding is eventually bound or closed.
C20_ConnectionBoundOrClosed ==
    \A s \in Sockets :
        (socket[s].connected /\ s \notin DOMAIN socketUsers)
            ~> (~socket[s].connected \/ s \in DOMAIN socketUsers)

(* --------------------------- claims on pages -------------------------- *)
\* the messages of c that u may see, and the rank of one of them counted from
\* the newest
VisibleIn(c, u) == {m \in MessagesOf(c) : m.deletedAt = NoTime /\ ~HiddenFrom(m, u)}
RankIn(m, rows) == 1 + Cardinality({o \in rows : o.createdAt > m.createdAt})
PageOf(c, u, page, limit) == GetMessages(DB, c.id, u, page, limit).res.data

\* C21: page p with limit n of getMessages holds exactly the visible messages
\* of rank (p-1)*n+1 .. p*n counted from the newest, each once, oldest first;
\* page 1 ends with the newest visible message and the pages together hold
\* every visible message exactly once.
C21_PagesPartitionVisibleMessages ==
    \A c \in conversations : \A u \in Participants(c) : \A limit \in Limits :
        LET rows == VisibleIn(c, u)
            all == 1..(Cardinality(rows) + 1)
        IN  /\ \A page \in all :
                  LET data == PageOf(c, u, page, limit)
                  IN  /\ Range(data) = {m \in rows :
                                           /\ RankIn(m, rows) >= (page - 1) * limit + 1
                                           /\ RankIn(m, rows) <= page * limit}
                      /\ \A i, j \in 1..Len(data) :
                            i < j => data[i].createdAt < data[j].createdAt
                      /\ (page = 1 /\ rows # {})
                            => RankIn(data[Len(data)], rows) = 1
            /\ \A m \in rows :
                  Cardinality({page \in all : m \in Range(PageOf(c, u, page, limit))}) = 1

\* two visible messages, split over two pages of one
C21_Witness ==
    \E c \in conversations : \E u \in Participants(c) : \E o, m \in VisibleIn(c, u) :
        /\ o.createdAt < m.createdAt
        /\ PageOf(c, u, 1, 1) = <<m>>
        /\ PageOf(c, u, 2, 1) = <<o>>

(* ------------------- claims on reading while sending ------------------ *)
\* C22: when markMessagesAsRead by X and sendMessage by the other participant
\* overlap, then once both have completed X's counter is the number of
\* messages from the other participant that still have read = false.
C22_CounterMatchesUnreadAfterRace ==
    Quiescent =>
        \A c \in conversations : \A x \in Participants(c) :
            UnreadCountOf(c, x)
                = Cardinality({m \in MessagesOf(c) : m.senderId # x /\ ~m.read})

(* ---------------------- claims on the registry ------------------------ *)
\* C23: the disconnect of a connection leaves the binding of every other
\* connection as it was: a user bound to another connection stays bound to
\* it, and online.
C23_DisconnectLeavesOthersBound ==
    [][\A s \in Sockets :
          (socket[s].connected /\ ~socket'[s].connected)
              => /\ \A u \in DOMAIN userSockets :
                       userSockets[u] # s
                           => u \in DOMAIN userSockets' /\ userSockets'[u] = userSockets[u]
                 /\ \A o \in DOMAIN socketUsers \ {s} :
                       o \in DOMAIN socketUsers' /\ socketUsers'[o] = socketUsers[o]]_vars

\* the events pushed to a user, as against the presence broadcasts and the
\* acknowledgment of a connection
PushEvents == {"new-message", "message-read", "user-typing"}
Pushed(o) == {e \in inbox'[o] \ inbox[o] : e.event \in PushEvents}

\* C24: a push event for a user reaches only the connection the registry
\* binds that user to, the one bound last; an earlier connection of the user
\* that is still open receives none, so no event reaches two connections.
C24_PushOnlyToLatestConnection ==
    [][/\ \A o \in Sockets :
             Pushed(o) # {}
                 => /\ o \in DOMAIN socketUsers
                    /\ IsUserOnline(socketUsers[o])
                    /\ userSockets[socketUsers[o]] = o
       /\ \A o1, o2 \in Sockets : o1 # o2 => Pushed(o1) \cap Pushed(o2) = {}]_vars

(* ---------------------- claims on the last message -------------------- *)
Newest(rows) == CHOOSE m \in rows : \A o \in rows : o.createdAt <= m.createdAt

\* C25: once every sendMessage on a conversation has completed,
\* lastMessageText is the first 100 characters of the content of the message
\* created last, also when sends overlapped.
C25_LastMessageTextIsNewest ==
    Quiescent =>
        \A c \in conversations :
            MessagesOf(c) # {}
                => c.lastMessageText = Substring(Newest(MessagesOf(c)).content, SnippetLen)

(* ------------------- claims on the registry's maps -------------------- *)
\* C26: in every state of the gateway the two maps of the registry are
\* inverses of each other: userSockets maps u to s exactly when socketUsers
\* maps s to u.
C26_RegistryMapsAreInverse ==
    /\ \A u \in DOMAIN userSockets :
          userSockets[u] \in DOMAIN socketUsers /\ socketUsers[userSockets[u]] = u
    /\ \A s \in DOMAIN socketUsers :
          socketUsers[s] \in DOMAIN userSockets /\ userSockets[socketUsers[s]] = s

(* ------------------- claims on the order of pushes -------------------- *)
Received == UNION {inbox'[o] \ inbox[o] : o \in Sockets}
BeforeItsWrites(t) ==
    task[t].pc \in {"send_get", "send_create", "send_update", "mark_get", "mark_reset"}
Fails(t) == task[t].pc # "done" /\ task'[t].pc = "done" /\ task'[t].res.status # "ok"

\* C27: a new-message event is pushed only by a send whose row is persisted
\* and whose counter update is done, a message-read event only by a
\* markMessagesAsRead whose counter reset is done and which leaves no unread
\* message of the other participant; a call failing before that pushes nothing.
C27_PushAfterPersistence ==
    [][/\ \A e \in Received :
             e.event = "new-message"
                 => /\ \E m \in messages : m.id = e.message.id
                    /\ \E t \in Tasks : /\ task[t].pc = "send_notify"
                                        /\ task[t].message = e.message
                                        /\ task'[t].pc = "done"
       /\ \A e \in Received :
             e.event = "message-read"
                 => \E t \in Tasks :
                       /\ task[t].pc = "mark_update" /\ task'[t].pc = "done"
                       /\ task[t].cid = e.conversationId
                       /\ \A m \in messages' :
                             (m.conversationId = task[t].cid /\ m.senderId # task[t].userId)
                                 => m.read
       /\ \A t \in Tasks : (BeforeItsWrites(t) /\ Fails(t)) => inbox' = inbox]_vars

\* both users connected, U10 has received a new-message event and U1 the
\* message-read event, and a send has failed at its counter update
C27_Witness ==
    /\ \E o \in Sockets : \E e \in inbox[o] : e.event = "new-message"
    /\ \E o \in Sockets : \E e \in inbox[o] : e.event = "message-read"
    /\ \E t \in Tasks : task[t].pc = "done" /\ task[t].fault = "update"
                           /\ task[t].res.status = "error"

(* ------------------------ claims on typing events --------------------- *)
BoundSenders == {socketUsers[s] : s \in {x \in DOMAIN socketUsers : socket[x].connected}}

\* C28: a user-typing event carries the user id the registry binds to the
\* connection that sent the typing event, whatever the client put in the
\* body, and handling a typing event changes no conversation, no message and
\* nothing in the registry.
C28_TypingCarriesBoundIdentity ==
    [][/\ \A s \in Sockets : \A data \in TypingPayloads(NamedByClients) :
             \A em \in Range(TypingEmits(s, data)) :
                 s \in DOMAIN socketUsers /\ em.ev.userId = socketUsers[s]
       /\ \A e \in Received :
             e.event = "user-typing"
                 => /\ e.userId \in BoundSenders
                    /\ UNCHANGED <<dbVars, userSockets, socketUsers, rooms>>]_vars

\* U10 has received the typing event of U1 while U10 itself sent none
C28_Witness ==
    \E o \in Sockets : \E e \in inbox[o] :
        /\ e.event = "user-typing" /\ e.userId = U1
        /\ o \in DOMAIN socketUsers /\ socketUsers[o] = U10

\* the users in whose room connection o is
RoomUsers(o) == {r.user : r \in {x \in rooms[o] : x.user # NoUser}}

\* C29: a user-typing event naming conversation c reaches only connections
\* of a participant of c, and only when the user it carries, the one bound
\* to the connection it came from, is the other participant of c; it reaches
\* nobody with whom that user shares no conversation.
C29_TypingOnlyToOtherParticipant ==
    [][\A o \in Sockets : \A e \in inbox'[o] \ inbox[o] :
           e.event = "user-typing"
               => \E c \in conversations :
                     /\ c.id = e.conversationId
                     /\ e.userId \in Participants(c)
                     /\ RoomUsers(o) \subseteq Participants(c) \ {e.userId}]_vars

(* --------------------- claims on the incoming-messages flag ----------- *)
\* C30: no message is persisted whose receiver, the other participant of its
\* conversation, has the allow-incoming-messages flag off, whether the call
\* is startConversation or sendMessage on a conversation there already is.
C30_NoMessageToUserRefusingMessages ==
    [][\A m \in messages' \ messages : users[ReceiverIn(DB', m)].allowMessages]_vars

====
